---------------------------- MODULE Spec2Model ----------------------------
(***************************************************************************)
(* StudyDino: group lifecycle (create / join / leave), the group reaper    *)
(* and the per-group chat relay of the server.                             *)
(*                                                                         *)
(* The store is MongoDB behind mongoose: every await of a handler is one   *)
(* atomic store operation, and handlers interleave at their awaits.        *)
(***************************************************************************)
EXTENDS Integers, Sequences, FiniteSets, TLC

(* ------------------------------ bounds --------------------------------- *)

\* Group documents ever created (ObjectIds are never reused).
MaxGroups == 2

\* The clock, and the dates of a request body, run from 0 to MaxTime.
MaxTime == 2

\* HTTP requests the clients send.
MaxReqs == 4

\* Of these, the requests sent where a chat socket is served.
ChatReqs == 3

\* Chat messages ever stored.
MaxMsgs == 2

\* Messages of a group in the store when a history is read.
MaxStored == 22

\* Messages of the other group in the store at that time.
MaxOther == 2

(* ----------------------------- constants ------------------------------- *)

\* currentGroupId: { default: null }
Null == 0

Users == {"A", "B", "C"}

\* A request without a verified subject (getAuth0Id returns undefined).
NoSub == "none"

Subjects == Users \cup {NoSub}

\* HTTP request slots: requests that may be in flight together.
Slots == {1, 2}

GroupIds == 1..MaxGroups

\* An id that is the _id of no Group document, now or later.
GhostId == MaxGroups + 1

Times == 0..MaxTime

\* The clock when the server starts: no endAt a request can set is before it.
StartTime == 1

\* parseDate of a missing or unparsable value.
NoDate == -1

(* ------------------------------ state ---------------------------------- *)

VARIABLES
    userDocs,        \* Users that have a User document
    currentGroupId,  \* User.currentGroupId of each User document
    groups,          \* Group documents: _id -> [creator, members, endAt]
    nextGroupId,     \* the _id the next created Group gets
    messages,        \* GroupMessage documents, in insertion order
    now,             \* the clock
    req,             \* the HTTP request of each slot
    reaper,          \* the cleanupGroups cycle in progress
    conn,            \* the chat connection of each socket
    groupSockets,    \* the socket registry: groupId -> set of sockets
    frames,          \* the frames sent to each socket, in order
    pending,         \* GroupMessageModel.create calls not yet completed
    nextMsgId,       \* the id (and createdAt rank) of the next message
    alive,           \* the server process is running
    served           \* HTTP requests received so far

vars == <<userDocs, currentGroupId, groups, nextGroupId, messages, now,
          req, reaper, conn, groupSockets, frames, pending, nextMsgId,
          alive, served>>

chat == <<conn, groupSockets, frames, pending, nextMsgId>>

\* What only the reaper and the arrival of a request change.
rest == <<alive, served>>

store == <<userDocs, currentGroupId, groups, nextGroupId, messages>>

(* ------------------------------ helpers -------------------------------- *)

Range(s) == {s[i] : i \in 1..Len(s)}

\* members.some((memberId) => memberId.equals(user._id))
IsMember(members, u) == u \in Range(members)

\* A filter that removes nobody.
AllMembers(members, u) == members

\* members.filter((memberId) => !memberId.equals(user._id))
WithoutMember(members, u) == SelectSeq(members, LAMBDA m : m # u)

GroupExists(g) == g \in DOMAIN groups

\* The groups whose members array holds u.
GroupsOf(u) == {g \in DOMAIN groups : IsMember(groups[g].members, u)}

IdleReq ==
    [op |-> "none", pc |-> "idle", user |-> NoSub, gid |-> Null, status |-> 0,
     cur |-> Null, members |-> <<>>, stale |-> FALSE, endAt |-> 0,
     made |-> FALSE]

InFlight(r) == req[r].pc # "idle"

\* No request and no reaper cycle is in progress.
Quiescent == (\A r \in Slots : ~InFlight(r)) /\ reaper.pc = "idle"

\* The response is sent (or the handler threw): the request is over.
Respond(r) == [req EXCEPT ![r] = IdleReq]

\* A write to group g bumps its version: every Group document read before it
\* and about to be saved with a version check is stale.
Bumped(r, g) ==
    [q \in Slots |->
        IF q # r /\ req[q].op = "leave" /\ req[q].pc = "saveGroup" /\ req[q].gid = g
        THEN [req[q] EXCEPT !.stale = TRUE]
        ELSE req[q]]

\* getOrCreateUser: findOne({ auth0Id }) ?? create({ auth0Id })
GetOrCreateUser(u) == userDocs \cup {u}

\* req.made: getOrCreateUser of the request in flight created the document.

\* Each step of a handler has a status: the HTTP status of the response it
\* sends, or 0 if the handler goes on to its next await.

(* ------------------------- POST /groups (create) ----------------------- *)

\* The request body, as far as the handler looks at it.
Payload(s, e) ==
    [name |-> TRUE, startAt |-> s, endAt |-> e, location |-> TRUE,
     interest |-> TRUE, module |-> "none", university |-> TRUE]

Payloads ==
    {Payload(s, e) : s \in Times \cup {NoDate}, e \in Times \cup {NoDate}}
    \cup {[Payload(0, 1) EXCEPT !.name = FALSE],
          [Payload(0, 1) EXCEPT !.location = FALSE],
          [Payload(0, 1) EXCEPT !.interest = FALSE],
          [Payload(0, 1) EXCEPT !.module = "ok"],
          [Payload(0, 1) EXCEPT !.interest = FALSE, !.module = "ok"],
          [Payload(0, 1) EXCEPT !.interest = FALSE, !.module = "incomplete"],
          [Payload(0, 1) EXCEPT !.interest = FALSE, !.module = "unknown"],
          [Payload(0, 1) EXCEPT !.interest = FALSE, !.module = "ok",
                                !.university = FALSE]}

\* The checks of the body, in the handler's order: 400 at the first that fails.
Validate(p) ==
    IF ~p.name THEN 400
    ELSE IF p.startAt = NoDate \/ p.endAt = NoDate THEN 400
    ELSE IF p.endAt <= p.startAt THEN 400
    ELSE IF ~p.location THEN 400
    ELSE IF p.interest = (p.module # "none") THEN 400
    ELSE IF p.module = "incomplete" THEN 400
    ELSE IF p.module # "none" /\ ~p.university THEN 400
    ELSE IF p.module = "unknown" THEN 400
    ELSE 0

\* A create handler without the conflict check.
CreateStatusNoConflict(u, p) == IF u = NoSub THEN 401 ELSE Validate(p)

\* The subject, the conflict check and the validation of the body.
CreateStatus(u, p) ==
    IF u = NoSub THEN 401
    ELSE IF currentGroupId[u] # Null THEN 409
    ELSE Validate(p)

\* The handler up to GroupModel.create.
CreateStart(r, u, p) ==
    /\ ~InFlight(r)
    /\ served < MaxReqs
    /\ served' = served + 1
    /\ CreateStatus(u, p) = 0 =>
          nextGroupId + Cardinality({q \in Slots : req[q].pc = "createGroup"}) <= MaxGroups
    /\ userDocs' = IF u = NoSub THEN userDocs ELSE GetOrCreateUser(u)
    /\ req' = IF CreateStatus(u, p) # 0 THEN Respond(r)
              ELSE [req EXCEPT ![r] = [IdleReq EXCEPT !.op = "create", !.pc = "createGroup",
                                                      !.user = u, !.endAt = p.endAt]]
    /\ UNCHANGED <<currentGroupId, groups, nextGroupId, messages, now, reaper, chat, alive>>

\* GroupModel.create({ creator: user._id, members: [user._id], ... })
CreateGroup(r) ==
    /\ req[r].op = "create" /\ req[r].pc = "createGroup"
    /\ groups' = [g \in DOMAIN groups \cup {nextGroupId} |->
                    IF g = nextGroupId
                    THEN [creator |-> req[r].user, members |-> <<req[r].user>>,
                          endAt |-> req[r].endAt]
                    ELSE groups[g]]
    /\ nextGroupId' = nextGroupId + 1
    /\ req' = [req EXCEPT ![r].pc = "saveUser", ![r].gid = nextGroupId]
    /\ UNCHANGED <<userDocs, currentGroupId, messages, now, reaper, chat, rest>>

\* user.currentGroupId = group._id; await user.save(); res.status(201)
CreateSaveUserStatus == 201

CreateSaveUser(r) ==
    /\ req[r].op = "create" /\ req[r].pc = "saveUser"
    /\ currentGroupId' = [currentGroupId EXCEPT ![req[r].user] = req[r].gid]
    /\ req' = Respond(r)
    /\ UNCHANGED <<userDocs, groups, nextGroupId, messages, now, reaper, chat, rest>>

(* ----------------------- POST /groups/:id/join ------------------------- *)

\* The subject and the conflict check.
JoinStatus(u) ==
    IF u = NoSub THEN 401
    ELSE IF currentGroupId[u] # Null THEN 409
    ELSE 0

JoinStart(r, u, g) ==
    /\ ~InFlight(r)
    /\ served < MaxReqs
    /\ served' = served + 1
    /\ userDocs' = IF u = NoSub THEN userDocs ELSE GetOrCreateUser(u)
    /\ req' = IF JoinStatus(u) # 0 THEN Respond(r)
              ELSE [req EXCEPT ![r] = [IdleReq EXCEPT !.op = "join", !.pc = "findGroup",
                                                      !.user = u, !.gid = g,
                                                      !.made = u \notin userDocs]]
    /\ UNCHANGED <<currentGroupId, groups, nextGroupId, messages, now, reaper, chat, alive>>

\* A join handler without the membership check.
JoinFindGroupStatusNoMemberCheck(r) == IF ~GroupExists(req[r].gid) THEN 404 ELSE 0

\* GroupModel.findById and the membership check.
JoinFindGroupStatus(r) ==
    IF ~GroupExists(req[r].gid) THEN 404
    ELSE IF IsMember(groups[req[r].gid].members, req[r].user) THEN 409
    ELSE 0

\* ... then members.push (in memory).
JoinFindGroup(r) ==
    /\ req[r].op = "join" /\ req[r].pc = "findGroup"
    /\ req' = IF JoinFindGroupStatus(r) # 0 THEN Respond(r)
              ELSE [req EXCEPT ![r].pc = "saveGroup"]
    /\ UNCHANGED <<userDocs, currentGroupId, groups, nextGroupId, messages, now, reaper, chat, rest>>

\* A document deleted meanwhile fails the save.
JoinSaveGroupStatus(r) == IF GroupExists(req[r].gid) THEN 0 ELSE 500

\* group.save() after members.push: mongoose sends { $push: { members } }, which
\* appends to the array as stored.
JoinSaveGroup(r) ==
    /\ req[r].op = "join" /\ req[r].pc = "saveGroup"
    /\ IF JoinSaveGroupStatus(r) = 0
       THEN /\ groups' = [groups EXCEPT ![req[r].gid].members =
                              Append(@, req[r].user)]
            /\ req' = [Bumped(r, req[r].gid) EXCEPT ![r].pc = "saveUser"]
       ELSE /\ req' = Respond(r)
            /\ UNCHANGED groups
    /\ UNCHANGED <<userDocs, currentGroupId, nextGroupId, messages, now, reaper, chat, rest>>

\* user.currentGroupId = group._id; await user.save(); res.json
JoinSaveUserStatus == 200

JoinSaveUser(r) ==
    /\ req[r].op = "join" /\ req[r].pc = "saveUser"
    /\ currentGroupId' = [currentGroupId EXCEPT ![req[r].user] = req[r].gid]
    /\ req' = Respond(r)
    /\ UNCHANGED <<userDocs, groups, nextGroupId, messages, now, reaper, chat, rest>>

(* ----------------------- POST /groups/:id/leave ------------------------ *)

\* The subject, UserModel.findOne and the check that the user has a group.
LeaveStatus(u) ==
    IF u = NoSub THEN 401
    ELSE IF u \notin userDocs \/ currentGroupId[u] = Null THEN 409
    ELSE 0

LeaveStart(r, u, g) ==
    /\ ~InFlight(r)
    /\ served < MaxReqs
    /\ served' = served + 1
    /\ req' = IF LeaveStatus(u) # 0 THEN Respond(r)
              ELSE [req EXCEPT ![r] = [IdleReq EXCEPT !.op = "leave", !.pc = "findGroup",
                                                      !.user = u, !.gid = g,
                                                      !.cur = currentGroupId[u]]]
    /\ UNCHANGED <<userDocs, currentGroupId, groups, nextGroupId, messages, now, reaper, chat, alive>>

\* A leave handler that lets the creator leave.
LeaveFindGroupStatusAnyMember(r) ==
    IF ~GroupExists(req[r].gid) THEN 404
    ELSE IF req[r].cur # req[r].gid THEN 409
    ELSE IF ~IsMember(groups[req[r].gid].members, req[r].user) THEN 409
    ELSE 0

\* GroupModel.findById and the checks on the documents read; req.cur holds the
\* currentGroupId read with the User document.
LeaveFindGroupStatus(r) ==
    IF ~GroupExists(req[r].gid) THEN 404
    ELSE IF req[r].cur # req[r].gid THEN 409
    ELSE IF ~IsMember(groups[req[r].gid].members, req[r].user) THEN 409
    ELSE IF groups[req[r].gid].creator = req[r].user THEN 400
    ELSE 0

\* A leave that clears the pointer only where the group does not list the user.
LeaveClearsForNonMember(r) ==
    /\ GroupExists(req[r].gid)
    /\ req[r].cur = req[r].gid
    /\ ~IsMember(groups[req[r].gid].members, req[r].user)

\* The two checks that clear user.currentGroupId and save the user before they
\* respond: the group is not there, or does not list the user.
LeaveClearsPointer(r) ==
    \/ ~GroupExists(req[r].gid)
    \/ /\ req[r].cur = req[r].gid
       /\ ~IsMember(groups[req[r].gid].members, req[r].user)

LeaveFindGroup(r) ==
    /\ req[r].op = "leave" /\ req[r].pc = "findGroup"
    /\ req' = IF LeaveFindGroupStatus(r) = 0
              THEN [req EXCEPT ![r].pc = "saveGroup",
                               ![r].members = WithoutMember(groups[req[r].gid].members,
                                                            req[r].user)]
              ELSE IF LeaveClearsPointer(r)
                   THEN [req EXCEPT ![r].pc = "saveUser",
                                    ![r].status = LeaveFindGroupStatus(r)]
                   ELSE Respond(r)
    /\ UNCHANGED <<userDocs, currentGroupId, groups, nextGroupId, messages, now, reaper, chat, rest>>

\* A save of the group without the version check.
LeaveSaveGroupStatusNoVersion(r) ==
    IF GroupExists(req[r].gid) /\ req[r].members # <<>> THEN 0 ELSE 500

\* A document changed or deleted meanwhile fails the save, and so does the
\* schema's validator of members (value.length > 0).
LeaveSaveGroupStatus(r) ==
    IF GroupExists(req[r].gid) /\ ~req[r].stale /\ req[r].members # <<>> THEN 0 ELSE 500

\* group.save() after members was assigned: mongoose sends { $set: { members } }
\* where the version is the one read.
LeaveSaveGroup(r) ==
    /\ req[r].op = "leave" /\ req[r].pc = "saveGroup"
    /\ IF LeaveSaveGroupStatus(r) = 0
       THEN /\ groups' = [groups EXCEPT ![req[r].gid].members = req[r].members]
            /\ req' = [Bumped(r, req[r].gid) EXCEPT ![r].pc = "saveUser"]
       ELSE /\ req' = Respond(r)
            /\ UNCHANGED groups
    /\ UNCHANGED <<userDocs, currentGroupId, nextGroupId, messages, now, reaper, chat, rest>>

\* The response after user.save(): the one of the check that cleared the
\* pointer, or res.json.
LeaveSaveUserStatus(r) == IF req[r].status = 0 THEN 200 ELSE req[r].status

\* user.currentGroupId = null; await user.save()
LeaveSaveUser(r) ==
    /\ req[r].op = "leave" /\ req[r].pc = "saveUser"
    /\ currentGroupId' = [currentGroupId EXCEPT ![req[r].user] = Null]
    /\ req' = Respond(r)
    /\ UNCHANGED <<userDocs, groups, nextGroupId, messages, now, reaper, chat, rest>>

(* --------------------------- cleanupGroups ----------------------------- *)

IdleReaper == [pc |-> "idle", ids |-> {}]

\* find({ $or: [{ endAt: { $lt: now } }, { members: { $size: 0 } }] })
GroupsToDelete ==
    {g \in DOMAIN groups : groups[g].endAt < now \/ groups[g].members = <<>>}

\* A store call of the cycle rejects: cleanupGroups rejects, and nothing awaits
\* or catches its promise (void cleanupGroups()). What the runtime does with an
\* unhandled rejection is its choice: it warns, or it ends the process.
Rejected ==
    /\ reaper' = IdleReaper
    /\ alive' \in BOOLEAN

\* The scan; a cycle that finds nothing returns.
ReaperScan(ok) ==
    /\ reaper.pc = "idle"
    /\ IF ~ok THEN Rejected
       ELSE /\ alive' = alive
            /\ IF GroupsToDelete = {}
               THEN reaper' = IdleReaper
               ELSE reaper' = [pc |-> "clearUsers", ids |-> GroupsToDelete]
    /\ UNCHANGED <<store, now, req, chat, served>>

\* A reaper that clears no pointer.
NoPointerCleared(ids) == currentGroupId

\* UserModel.updateMany({ currentGroupId: { $in: groupIds } }, { $set: null })
ClearedPointers(ids) ==
    [u \in Users |-> IF currentGroupId[u] \in ids THEN Null ELSE currentGroupId[u]]

ReaperClearUsers(ok) ==
    /\ reaper.pc = "clearUsers"
    /\ IF ~ok THEN Rejected /\ UNCHANGED currentGroupId
       ELSE /\ currentGroupId' = ClearedPointers(reaper.ids)
            /\ reaper' = [reaper EXCEPT !.pc = "purgeMessages"]
            /\ alive' = alive
    /\ UNCHANGED <<userDocs, groups, nextGroupId, messages, now, req, chat, served>>

\* GroupMessageModel.deleteMany({ groupId: { $in: groupIds } })
ReaperPurgeMessages(ok) ==
    /\ reaper.pc = "purgeMessages"
    /\ IF ~ok THEN Rejected /\ UNCHANGED messages
       ELSE /\ messages' = SelectSeq(messages, LAMBDA m : m.groupId \notin reaper.ids)
            /\ reaper' = [reaper EXCEPT !.pc = "deleteGroups"]
            /\ alive' = alive
    /\ UNCHANGED <<userDocs, currentGroupId, groups, nextGroupId, now, req, chat, served>>

\* A reaper that deletes one group of those it found (deleteOne).
AllButOneDeleted(ids) ==
    LET g == CHOOSE x \in ids : TRUE
    IN  [k \in DOMAIN groups \ {g} |-> groups[k]]

\* GroupModel.deleteMany({ _id: { $in: groupIds } })
Remaining(ids) == [g \in DOMAIN groups \ ids |-> groups[g]]

\* ... and the cycle is complete.
ReaperDeleteGroups(ok) ==
    /\ reaper.pc = "deleteGroups"
    /\ IF ~ok THEN Rejected /\ UNCHANGED groups
       ELSE /\ groups' = Remaining(reaper.ids)
            /\ reaper' = IdleReaper
            /\ alive' = alive
    /\ UNCHANGED <<userDocs, currentGroupId, nextGroupId, messages, now, req, chat, served>>

(* ------------------------------ the clock ------------------------------ *)

Tick ==
    /\ now < MaxTime
    /\ now' = now + 1
    /\ UNCHANGED <<store, req, reaper, chat, rest>>

(* --------------------------- socket registry --------------------------- *)

Conns == {1, 2}

Registered(c) == \E g \in DOMAIN groupSockets : c \in groupSockets[g]

\* registerSocket(groupId, socket)
RegisterSocket(reg, g, c) ==
    [k \in DOMAIN reg \cup {g} |->
        IF k = g THEN (IF g \in DOMAIN reg THEN reg[g] ELSE {}) \cup {c}
        ELSE reg[k]]

\* An unregister that drops the whole entry of the group.
UnregisterGroup(reg, g, c) == [k \in DOMAIN reg \ {g} |-> reg[k]]

\* unregisterSocket(groupId, socket)
UnregisterSocket(reg, g, c) ==
    IF g \notin DOMAIN reg THEN reg
    ELSE IF reg[g] \ {c} = {}
         THEN [k \in DOMAIN reg \ {g} |-> reg[k]]
         ELSE [reg EXCEPT ![g] = @ \ {c}]

\* A relay that skips the sockets whose setup is not over.
BroadcastToReady(g, frame) ==
    [c \in Conns |->
        IF /\ g \in DOMAIN groupSockets /\ c \in groupSockets[g]
           /\ conn[c].open /\ conn[c].pc = "ready"
        THEN Append(frames[c], frame)
        ELSE frames[c]]

\* A relay that sends the payload to every open socket, of whichever group.
BroadcastToAll(g, frame) ==
    [c \in Conns |-> IF conn[c].open THEN Append(frames[c], frame) ELSE frames[c]]

\* broadcastToGroup(groupId, payload): the frames after the payload was sent to
\* every socket of the group whose readyState is OPEN.
BroadcastToGroup(g, frame) ==
    [c \in Conns |->
        IF g \in DOMAIN groupSockets /\ c \in groupSockets[g] /\ conn[c].open
        THEN Append(frames[c], frame)
        ELSE frames[c]]

(* ------------------------- wss.on("connection") ------------------------ *)

\* A token: none, one jwtVerify rejects, one that verifies but has no string
\* sub, or one that verifies for a subject.
Tokens == {"", "bad", "nosub"} \cup Users

NewConn ==
    [pc |-> "new", token |-> "", gid |-> Null, user |-> NoSub, cur |-> Null,
     open |-> FALSE, code |-> 0, hist |-> <<>>, dropped |-> FALSE]

\* closeWithPolicy() during the checks: socket.close(1008, "Unauthorized").
RejectedConn == [NewConn EXCEPT !.pc = "rejected", !.code = 1008]

\* The connection handler: token and groupId must be there (groupId Null is the
\* missing query parameter), then setupConnection starts.
Connect(c, t, g) ==
    /\ conn[c].pc \in {"new", "rejected", "closed"}
    /\ IF t = "" \/ g = Null
       THEN conn' = [conn EXCEPT ![c] = RejectedConn]
       ELSE conn' = [conn EXCEPT ![c] = [NewConn EXCEPT !.pc = "verify", !.token = t,
                                                        !.gid = g, !.open = TRUE]]
    /\ UNCHANGED <<store, now, req, reaper, groupSockets, frames, pending, nextMsgId, rest>>

\* await jwtVerify(...), then payload.sub.
VerifyToken(c) ==
    /\ conn[c].pc = "verify"
    /\ IF conn[c].token \notin Users
       THEN conn' = [conn EXCEPT ![c] = RejectedConn]
       ELSE conn' = [conn EXCEPT ![c].pc = "findUser", ![c].user = conn[c].token,
                                 ![c].token = ""]
    /\ UNCHANGED <<store, now, req, reaper, groupSockets, frames, pending, nextMsgId, rest>>

\* A check that the user has a group, whichever.
NotInAnyGroup(u, g) == u \notin userDocs \/ currentGroupId[u] = Null

\* !user?.currentGroupId || String(user.currentGroupId) !== groupId
NotInGroup(u, g) ==
    u \notin userDocs \/ currentGroupId[u] = Null \/ currentGroupId[u] # g

\* await UserModel.findOne({ auth0Id }), the membership check, registerSocket.
FindUser(c) ==
    /\ conn[c].pc = "findUser"
    /\ IF NotInGroup(conn[c].user, conn[c].gid)
       THEN /\ conn' = [conn EXCEPT ![c] = RejectedConn]
            /\ UNCHANGED groupSockets
       ELSE /\ conn' = [conn EXCEPT ![c].pc = "history",
                                    ![c].cur = currentGroupId[conn[c].user]]
            /\ groupSockets' = RegisterSocket(groupSockets, conn[c].gid, c)
    /\ UNCHANGED <<store, now, req, reaper, frames, pending, nextMsgId, rest>>

\* The ids of s, ascending (sort by createdAt).
RECURSIVE Sorted(_)
Sorted(S) ==
    IF S = {} THEN <<>>
    ELSE LET lo == CHOOSE x \in S : \A y \in S : x <= y
         IN  <<lo>> \o Sorted(S \ {lo})

\* A history query without the limit.
RecentUnlimited(g) ==
    Sorted({messages[i].id : i \in {j \in 1..Len(messages) : messages[j].groupId = g}})

HistoryLimit == 20

\* find({ groupId }).sort({ createdAt: -1 }).limit(20), reversed: the ids of
\* the newest messages of the group, oldest first.
Recent(g) ==
    LET ids == {messages[i].id : i \in {j \in 1..Len(messages) : messages[j].groupId = g}}
        s == Sorted(ids)
    IN  IF Len(s) <= HistoryLimit THEN s
        ELSE SubSeq(s, Len(s) - HistoryLimit + 1, Len(s))

\* The store runs the history query: what it reads then is what setupConnection
\* gets when its await resumes.
ReadHistory(c) ==
    /\ conn[c].pc = "history"
    /\ conn' = [conn EXCEPT ![c].pc = "send", ![c].hist = Recent(conn[c].gid)]
    /\ UNCHANGED <<store, now, req, reaper, groupSockets, frames, pending, nextMsgId, rest>>

\* The await of the history query resumes: the history frame is sent and the message and
\* close handlers are attached. A socket that closed meanwhile gets no frame.
SendHistory(c) ==
    /\ conn[c].pc = "send"
    /\ frames' = [frames EXCEPT ![c] =
                     IF conn[c].open
                     THEN Append(@, [type |-> "history", msgs |-> conn[c].hist])
                     ELSE @]
    /\ conn' = [conn EXCEPT ![c].pc = "ready", ![c].hist = <<>>]
    /\ UNCHANGED <<store, now, req, reaper, groupSockets, pending, nextMsgId, rest>>

\* The history query rejects: the catch of setupConnection closes the socket
\* with the policy code. The socket was registered before the query, and the
\* close handler, attached after it, is not there.
HistoryFails(c) ==
    /\ conn[c].pc = "history"
    /\ conn' = [conn EXCEPT ![c].pc = "failed", ![c].open = FALSE,
                            ![c].code = IF conn[c].open THEN 1008 ELSE @]
    /\ UNCHANGED <<store, now, req, reaper, groupSockets, frames, pending, nextMsgId, rest>>

\* text: { maxlength: 1000 }
TextLimit == 1000

\* The inbound frames: a short message, one of the longest text the schema
\* takes, and the frames that are not a message.
FrameKinds ==
    {"message", "longest", "notjson", "wrongtype", "nontext", "blank", "toolong"}

\* What the handler looks at: whether JSON.parse takes the frame, its type,
\* whether its text is a string, and the length of the text once trimmed.
Frame(kind) ==
    [json |-> kind # "notjson",
     type |-> IF kind = "wrongtype" THEN "other" ELSE "message",
     string |-> kind # "nontext",
     len |-> IF kind = "blank" THEN 0
             ELSE IF kind = "longest" THEN TextLimit
             ELSE IF kind = "toolong" THEN TextLimit + 1
             ELSE 2]

\* A handler whose schema has no maxlength.
StoresAnyLength(kind) ==
    LET f == Frame(kind)
    IN  f.json /\ f.type = "message" /\ f.string /\ f.len > 0

\* The frame gets past the checks of the handler and the validation of
\* GroupMessageModel.create.
Stores(kind) ==
    LET f == Frame(kind)
    IN  f.json /\ f.type = "message" /\ f.string /\ f.len > 0 /\ f.len <= TextLimit

\* socket.on("message"): an inbound frame. A frame that is stored waits for
\* GroupMessageModel.create; any other is dropped (return, or the catch).
\* conn.dropped: a frame of this connection was dropped.
OnMessage(c, kind) ==
    /\ conn[c].pc = "ready" /\ conn[c].open
    /\ IF Stores(kind)
       THEN /\ nextMsgId <= MaxMsgs
            /\ pending' = pending \cup
                  {[id |-> nextMsgId, groupId |-> conn[c].gid, sender |-> conn[c].user]}
            /\ nextMsgId' = nextMsgId + 1
            /\ UNCHANGED conn
       ELSE /\ conn' = [conn EXCEPT ![c].dropped = TRUE]
            /\ UNCHANGED <<pending, nextMsgId>>
    /\ UNCHANGED <<store, now, req, reaper, groupSockets, frames, rest>>

\* GroupMessageModel.create answers: the message is stored and broadcast.
MessageCreated(m) ==
    /\ m \in pending
    /\ pending' = pending \ {m}
    /\ messages' = Append(messages, m)
    /\ frames' = BroadcastToGroup(m.groupId, [type |-> "message", msgs |-> <<m.id>>])
    /\ UNCHANGED <<userDocs, currentGroupId, groups, nextGroupId, now, req, reaper,
                   conn, groupSockets, nextMsgId, rest>>

\* The transport closes (the client, or the network). The close handler is
\* there only once setupConnection attached it. A socket closed and
\* unregistered is gone, with what was sent to it.
TransportClose(c) ==
    /\ conn[c].open
    /\ conn' = [conn EXCEPT ![c] = IF conn[c].pc = "ready"
                                     THEN [NewConn EXCEPT !.pc = "closed", !.code = 1000]
                                     ELSE [conn[c] EXCEPT !.open = FALSE]]
    /\ groupSockets' = IF conn[c].pc = "ready"
                       THEN UnregisterSocket(groupSockets, conn[c].gid, c)
                       ELSE groupSockets
    /\ frames' = IF conn[c].pc = "ready" THEN [frames EXCEPT ![c] = <<>>] ELSE frames
    /\ UNCHANGED <<store, now, req, reaper, pending, nextMsgId, rest>>

(* --------------------------- specifications ---------------------------- *)

Init ==
    /\ userDocs = {}
    /\ currentGroupId = [u \in Users |-> Null]
    /\ groups = [g \in {} |-> Null]
    /\ nextGroupId = 1
    /\ messages = <<>>
    /\ now = StartTime
    /\ req = [r \in Slots |-> IdleReq]
    /\ reaper = IdleReaper
    /\ conn = [c \in Conns |-> NewConn]
    /\ groupSockets = [g \in {} |-> {}]
    /\ frames = [c \in Conns |-> <<>>]
    /\ pending = {}
    /\ nextMsgId = 1
    /\ alive = TRUE
    /\ served = 0

\* The ids a request may name: those of the groups, and one of no group.
Targets == GroupIds \cup {GhostId}

\* A request arrives in slot r.
HttpStart(r) ==
    \E u \in Subjects :
        \/ \E p \in Payloads : CreateStart(r, u, p)
        \/ \E g \in Targets : JoinStart(r, u, g)
        \/ \E g \in Targets : LeaveStart(r, u, g)

\* The request of slot r gets the answer of the store call it awaits.
HttpStep(r) ==
    \/ CreateGroup(r)
    \/ CreateSaveUser(r)
    \/ JoinFindGroup(r)
    \/ JoinSaveGroup(r)
    \/ JoinSaveUser(r)
    \/ LeaveFindGroup(r)
    \/ LeaveSaveGroup(r)
    \/ LeaveSaveUser(r)

\* The reaper cycle in progress gets the answer of the store call it awaits.
ReaperStep(ok) ==
    \/ ReaperClearUsers(ok)
    \/ ReaperPurgeMessages(ok)
    \/ ReaperDeleteGroups(ok)

\* A socket connects, sends a frame or closes.
ChatStart(c) ==
    \/ \E t \in Tokens, g \in GroupIds \cup {Null} : Connect(c, t, g)
    \/ \E kind \in FrameKinds : OnMessage(c, kind)
    \/ TransportClose(c)

\* A connection's setup, or a message being stored, gets its answer.
ChatStep ==
    \/ \E c \in Conns : VerifyToken(c) \/ FindUser(c) \/ ReadHistory(c) \/ SendHistory(c)
    \/ \E m \in pending : MessageCreated(m)

\* The store fails the history query of a connection's setup.
ChatFails == \E c \in Conns : HistoryFails(c)

\* The server: requests, reaper cycles and chat connections interleave at
\* every await, and the store may fail the reaper's calls.
Next ==
    /\ alive
    /\ \/ \E r \in Slots : (HttpStart(r)) \/ HttpStep(r)
       \/ \E c \in Conns : ChatStart(c)
       \/ ChatStep
       \/ ChatFails
       \/ Tick
       \/ \E ok \in BOOLEAN : ReaperScan(ok) \/ ReaperStep(ok)

Spec == Init /\ [][Next]_vars

\* One client, one request at a time: every request and every reaper cycle
\* runs to completion before the next one starts; the store fails no call.
GroupNext ==
    \/ \E u \in Subjects, p \in Payloads : Quiescent /\ CreateStart(1, u, p)
    \/ \E u \in Subjects, g \in Targets : Quiescent /\ JoinStart(1, u, g)
    \/ \E u \in Subjects, g \in Targets : Quiescent /\ LeaveStart(1, u, g)
    \/ HttpStep(1)
    \/ Quiescent /\ Tick
    \/ Quiescent /\ ReaperScan(TRUE)
    \/ ReaperStep(TRUE)

GroupSpec == Init /\ [][GroupNext]_vars

\* As GroupSpec, and the store may fail the reaper's calls.
FailNext ==
    \/ GroupNext /\ alive
    \/ Quiescent /\ alive /\ ReaperScan(FALSE)
    \/ alive /\ ReaperClearUsers(FALSE)
    \/ alive /\ ReaperPurgeMessages(FALSE)
    \/ alive /\ ReaperDeleteGroups(FALSE)

FailSpec == Init /\ [][FailNext]_vars

\* No handler is between two of its awaits.
AllQuiet ==
    /\ Quiescent
    /\ pending = {}
    /\ \A c \in Conns : conn[c].pc \notin {"verify", "findUser", "history", "send"}

\* One client with one chat socket, one handler at a time: every request,
\* reaper cycle, connection setup and message runs to completion before the
\* next one starts. The store fails no call.
SeqTurn == AllQuiet /\ served < ChatReqs

SeqNext ==
    \/ \E u \in Subjects, p \in Payloads : SeqTurn /\ CreateStart(1, u, p)
    \/ \E u \in Subjects, g \in Targets : SeqTurn /\ JoinStart(1, u, g)
    \/ \E u \in Subjects, g \in Targets : SeqTurn /\ LeaveStart(1, u, g)
    \/ HttpStep(1)
    \/ \E t \in Tokens, g \in GroupIds \cup {Null} : AllQuiet /\ Connect(1, t, g)
    \/ \E kind \in FrameKinds : AllQuiet /\ OnMessage(1, kind)
    \/ AllQuiet /\ TransportClose(1)
    \/ ChatStep
    \/ AllQuiet /\ Tick
    \/ AllQuiet /\ ReaperScan(TRUE)
    \/ ReaperStep(TRUE)

SeqSpec == Init /\ [][SeqNext]_vars

\* A request takes the first slot that is free.
FirstFree(r) == ~InFlight(r) /\ \A q \in Slots : q < r => InFlight(q)

\* Two clients: their requests interleave at every await. No reaper cycle, no
\* chat.
RaceNext ==
    \/ \E r \in Slots, u \in Subjects, p \in Payloads : FirstFree(r) /\ CreateStart(r, u, p)
    \/ \E r \in Slots, u \in Subjects, g \in Targets : FirstFree(r) /\ JoinStart(r, u, g)
    \/ \E r \in Slots, u \in Subjects, g \in Targets : FirstFree(r) /\ LeaveStart(r, u, g)
    \/ \E r \in Slots : HttpStep(r)

RaceSpec == Init /\ [][RaceNext]_vars

\* One client and the reaper: the requests, one at a time, interleave with the
\* reaper cycles at every await; the clock, which only the reaper's scan
\* reads, advances between them. No chat, and the store fails no call.
ReapNext ==
    \/ HttpStart(1)
    \/ HttpStep(1)
    \/ Quiescent /\ Tick
    \/ ReaperScan(TRUE)
    \/ ReaperStep(TRUE)

ReapSpec == Init /\ [][ReapNext]_vars

\* The store once A has created group 1, B has joined it and C has created
\* group 2: two groups to chat in.
RelayInit ==
    /\ userDocs = Users
    /\ currentGroupId = [u \in Users |-> IF u = "C" THEN 2 ELSE 1]
    /\ groups = [g \in {1, 2} |->
                    IF g = 1
                    THEN [creator |-> "A", members |-> <<"A", "B">>, endAt |-> MaxTime]
                    ELSE [creator |-> "C", members |-> <<"C">>, endAt |-> MaxTime]]
    /\ nextGroupId = 3
    /\ messages = <<>>
    /\ now = StartTime
    /\ req = [r \in Slots |-> IdleReq]
    /\ reaper = IdleReaper
    /\ conn = [c \in Conns |-> NewConn]
    /\ groupSockets = [g \in {} |-> {}]
    /\ frames = [c \in Conns |-> <<>>]
    /\ pending = {}
    /\ nextMsgId = 1
    /\ alive = TRUE
    /\ served = 3

\* The chat relay: the sockets connect, send frames and close as they like,
\* their setups and their messages interleave at every await, and the store
\* may fail the history query. No request, no reaper cycle.
RelayNext ==
    \/ \E c \in Conns, t \in Tokens, g \in GroupIds \cup {Null} : Connect(c, t, g)
    \/ \E c \in Conns, kind \in FrameKinds : OnMessage(c, kind)
    \/ \E c \in Conns : TransportClose(c)
    \/ \E c \in Conns : VerifyToken(c)
    \/ \E c \in Conns : FindUser(c)
    \/ \E c \in Conns : ReadHistory(c)
    \/ \E c \in Conns : SendHistory(c)
    \/ \E m \in pending : MessageCreated(m)
    \/ ChatFails

RelaySpec == RelayInit /\ [][RelayNext]_vars

\* A store that holds n messages of group 1, sent by A one after the other,
\* and k of group 2, sent by C: the newest of all and the k - 1 oldest.
Stored(n, k) ==
    [i \in 1..(n + k) |->
        IF (k >= 1 /\ i = n + k) \/ i < k
        THEN [id |-> i, groupId |-> 2, sender |-> "C"]
        ELSE [id |-> i, groupId |-> 1, sender |-> "A"]]

\* As RelayInit, after the two groups have chatted.
HistoryInit ==
    /\ userDocs = Users
    /\ currentGroupId = [u \in Users |-> IF u = "C" THEN 2 ELSE 1]
    /\ groups = [g \in {1, 2} |->
                    IF g = 1
                    THEN [creator |-> "A", members |-> <<"A", "B">>, endAt |-> MaxTime]
                    ELSE [creator |-> "C", members |-> <<"C">>, endAt |-> MaxTime]]
    /\ nextGroupId = 3
    /\ \E n \in 0..MaxStored, k \in 0..MaxOther :
          /\ messages = Stored(n, k)
          /\ nextMsgId = n + k + 1
    /\ now = StartTime
    /\ req = [r \in Slots |-> IdleReq]
    /\ reaper = IdleReaper
    /\ conn = [c \in Conns |-> NewConn]
    /\ groupSockets = [g \in {} |-> {}]
    /\ frames = [c \in Conns |-> <<>>]
    /\ pending = {}
    /\ alive = TRUE
    /\ served = 3

\* One socket connects, again and again, to a store with a history; the
\* socket may close and the history query may fail at any point of the setup.
HistoryNext ==
    \/ \E t \in Tokens, g \in GroupIds \cup {Null} : Connect(1, t, g)
    \/ TransportClose(1)
    \/ VerifyToken(1)
    \/ FindUser(1)
    \/ ReadHistory(1)
    \/ SendHistory(1)
    \/ HistoryFails(1)

HistorySpec == HistoryInit /\ [][HistoryNext]_vars

\* The event loop runs every continuation whose await has its answer, and the
\* store answers every call: no setup and no message waits forever.
RelayLive ==
    /\ RelaySpec
    /\ \A c \in Conns : WF_vars(VerifyToken(c) \/ FindUser(c) \/ ReadHistory(c) \/ SendHistory(c))
    /\ WF_vars(\E m \in pending : MessageCreated(m))

(* ------------------------------ properties ----------------------------- *)

\* The ids of the groups the reaper deleted.
ReapedIds == (1..(nextGroupId - 1)) \ DOMAIN groups

\* C1: once every request and every reaper cycle has run to completion, the
\* currentGroupId of every User is null or the id of an existing Group whose
\* members holds the user.
C1_PointerIsMembership ==
    Quiescent =>
        \A u \in userDocs :
            \/ currentGroupId[u] = Null
            \/ /\ GroupExists(currentGroupId[u])
               /\ IsMember(groups[currentGroupId[u]].members, u)

\* All the requests were served, a group was reaped, one user has a group and
\* another has none.
C1_Witness ==
    /\ Quiescent
    /\ served = MaxReqs
    /\ ReapedIds # {}
    /\ \E u \in userDocs : currentGroupId[u] # Null
    /\ \E u \in userDocs : currentGroupId[u] = Null

\* C2: every User is in the members of at most one Group.
C2_AtMostOneGroup == \A u \in Users : Cardinality(GroupsOf(u)) <= 1

\* C3: of two concurrent joins of one user for two different groups at most
\* one succeeds: once one has passed every check and saved the group (all that
\* is left is to save the user and to respond 200), the other has not.
C3_OneJoinWins ==
    \A r, q \in Slots :
        (/\ r # q
         /\ req[r].op = "join" /\ req[q].op = "join"
         /\ req[r].user = req[q].user
         /\ req[r].gid # req[q].gid
         /\ req[r].pc = "saveUser")
        => req[q].pc # "saveUser"

\* C4: when a join ends after the reaper cycle it interleaved with, the
\* user's currentGroupId is null or the id of an existing group whose members
\* holds the user: never the id of the group the cycle deleted.
C4_JoinAgainstReapedGroup ==
    [][\A r \in Slots :
          (/\ req[r].op = "join" /\ req[r].pc = "saveUser"
           /\ req'[r].pc = "idle"
           /\ reaper'.pc = "idle")
          => \/ currentGroupId'[req[r].user] = Null
             \/ /\ currentGroupId'[req[r].user] \in DOMAIN groups'
                /\ IsMember(groups'[currentGroupId'[req[r].user]].members, req[r].user)]_vars

\* C5: in every reachable state the creator of every Group is in its members.
C5_CreatorIsMember ==
    \A g \in DOMAIN groups : IsMember(groups[g].members, groups[g].creator)

\* A member has left a group (its user is still to be saved) while another
\* request is in flight.
C5_Witness ==
    \E r \in Slots :
        /\ req[r].op = "leave" /\ req[r].pc = "saveUser" /\ req[r].status = 0
        /\ GroupExists(req[r].gid)
        /\ \E q \in Slots \ {r} : InFlight(q)

\* C6: a leave of a group by its creator responds Conflict (409) and changes
\* nothing: of the handler's steps that read the group, none goes on to a
\* write and the status is 409.
C6_CreatorLeaveIsConflict ==
    \A r \in Slots :
        (/\ req[r].op = "leave" /\ req[r].pc = "findGroup"
         /\ GroupExists(req[r].gid)
         /\ groups[req[r].gid].creator = req[r].user)
        => /\ LeaveFindGroupStatus(r) = 409
           /\ ~LeaveClearsPointer(r)

\* C7: when a reaper cycle completes, every group it found expired is gone,
\* every User in its members has a null currentGroupId, and no message of the
\* group is left.
C7_ExpiredGroupIsPurged ==
    [][(reaper.pc = "deleteGroups" /\ reaper'.pc = "idle") =>
          \A g \in reaper.ids \cap DOMAIN groups :
              groups[g].endAt < now =>
                  /\ g \notin DOMAIN groups'
                  /\ \A u \in Range(groups[g].members) : currentGroupId'[u] = Null
                  /\ \A i \in 1..Len(messages') : messages'[i].groupId # g]_vars

\* C8: a reaper cycle that follows a completed one with nothing in between
\* finds nothing to delete: its scan is empty at the state the first cycle
\* leaves, so it returns before any write.
C8_SecondCycleIsNoOp ==
    [][(reaper.pc # "idle" /\ reaper'.pc = "idle") => GroupsToDelete' = {}]_vars

\* A cycle has completed that deleted a group and its messages.
C8_Witness ==
    /\ reaper.pc = "idle"
    /\ ReapedIds # {}
    /\ nextMsgId > 1 /\ pending = {} /\ messages = <<>>

\* C9: the failure of a store call of a reaper cycle does not end the process.
C9_ProcessSurvives == alive

\* C10: a socket is registered, or was sent a frame, only if its token
\* verified for a subject that has a User whose currentGroupId was, at setup,
\* the groupId the socket asked for; a socket that was refused is closed with
\* 1008, is not registered and was sent no frame.
C10_OnlyAuthorisedSockets ==
    \A c \in Conns :
        /\ (Registered(c) \/ frames[c] # <<>>) =>
              /\ conn[c].user \in userDocs
              /\ conn[c].gid # Null
              /\ conn[c].cur = conn[c].gid
        /\ conn[c].pc = "rejected" =>
              /\ conn[c].code = 1008
              /\ ~Registered(c)
              /\ frames[c] = <<>>

\* A registered socket was sent the history and a message.
C10_Witness ==
    \E c \in Conns :
        /\ Registered(c)
        /\ Len(frames[c]) >= 2
        /\ frames[c][1].type = "history"
        /\ frames[c][2].type = "message"

\* The transport of socket c has closed.
Closed(c) == conn[c].pc # "new" /\ ~conn[c].open

\* C11: a connection whose transport has closed, at whatever point of its
\* lifecycle, is eventually not in the socket registry.
C11_ClosedIsUnregistered ==
    \A c \in Conns : Closed(c) ~> ~Registered(c)

\* C12: the registry has an entry for a groupId only while a connection of
\* that group is open: no entry is an empty set, and every entry holds an open
\* socket.
C12_EntryHasOpenSocket ==
    \A g \in DOMAIN groupSockets :
        /\ groupSockets[g] # {}
        /\ \E c \in groupSockets[g] : conn[c].open

\* The message frames for message id among those sent to socket c.
Sent(c, id) ==
    Cardinality({i \in 1..Len(frames[c]) :
                    frames[c][i].type = "message" /\ frames[c][i].msgs = <<id>>})

\* C13: when an accepted message of group G is broadcast, the sockets that are
\* registered under G and open, the sender's among them, are sent one message
\* frame for it and nothing else; every other socket is sent nothing.
C13_BroadcastToOpenMembers ==
    [][\A m \in pending :
          m \notin pending' =>
              \A c \in Conns :
                  IF /\ m.groupId \in DOMAIN groupSockets
                     /\ c \in groupSockets[m.groupId]
                     /\ conn[c].open
                  THEN /\ Len(frames'[c]) = Len(frames[c]) + 1
                       /\ SubSeq(frames'[c], 1, Len(frames[c])) = frames[c]
                       /\ Sent(c, m.id) = 0
                       /\ Sent(c, m.id)' = 1
                  ELSE frames'[c] = frames[c]]_vars

\* A message went to the two sockets of its group, its sender's among them,
\* and a message of the other group went to neither.
C13_Witness ==
    /\ \A c \in Conns : Registered(c) /\ conn[c].pc = "ready" /\ conn[c].gid = 1
    /\ \E m \in Range(messages) :
          /\ m.groupId = 1
          /\ m.sender \in {conn[c].user : c \in Conns}
          /\ \A c \in Conns : Sent(c, m.id) = 1
    /\ \E m \in Range(messages) :
          /\ m.groupId = 2
          /\ \A c \in Conns : Sent(c, m.id) = 0

\* The place of x in the sequence s (0 if it is not there).
IndexOf(s, x) == IF x \in Range(s) THEN CHOOSE i \in 1..Len(s) : s[i] = x ELSE 0

\* The ids of the stored messages, in the order they were stored.
StoredIds == [i \in 1..Len(messages) |-> messages[i].id]

\* The group of the stored message id.
GroupOfMessage(id) == messages[IndexOf(StoredIds, id)].groupId

\* C20: the message frames sent to a socket for two messages of one group,
\* two frames sent back-to-back on one connection among them, come in the
\* order the messages were stored, which is the order recent returns them.
C20_BroadcastOrderIsStoredOrder ==
    \A c \in Conns : \A i, j \in 1..Len(frames[c]) :
          (/\ i < j
           /\ frames[c][i].type = "message" /\ frames[c][j].type = "message"
           /\ frames[c][i].msgs[1] \in Range(StoredIds)
           /\ frames[c][j].msgs[1] \in Range(StoredIds)
           /\ GroupOfMessage(frames[c][i].msgs[1]) = GroupOfMessage(frames[c][j].msgs[1]))
          => LET a == frames[c][i].msgs[1]
                 b == frames[c][j].msgs[1]
                 g == GroupOfMessage(a)
             IN  /\ IndexOf(StoredIds, a) < IndexOf(StoredIds, b)
                 /\ IndexOf(Recent(g), a) < IndexOf(Recent(g), b)

\* The history frames among those sent to socket c.
HistoryFrames(c) == {i \in 1..Len(frames[c]) : frames[c][i].type = "history"}

\* The ids of the stored messages of group g.
IdsOf(g) == {messages[i].id : i \in {j \in 1..Len(messages) : messages[j].groupId = g}}

\* h holds the min(n, 20) newest stored messages of group g, oldest first.
IsRecent(h, g) ==
    /\ Len(h) = IF Cardinality(IdsOf(g)) < 20 THEN Cardinality(IdsOf(g)) ELSE 20
    /\ Range(h) \subseteq IdsOf(g)
    /\ \A i, j \in 1..Len(h) : i < j => h[i] < h[j]
    /\ \A x \in IdsOf(g) \ Range(h) : \A y \in Range(h) : x < y

C15_ErrorsBeforeMutation ==
    [][\A r \in Slots :
          /\ (~InFlight(r) /\ served' = served + 1 /\ ~InFlight(r)') =>
                 /\ userDocs' = userDocs
                 /\ currentGroupId' = currentGroupId
                 /\ groups' = groups
          /\ (/\ req[r].op = "join" /\ req[r].pc = "findGroup"
              /\ JoinFindGroupStatus(r) = 409)
             => ~req[r].made
          /\ (/\ req[r].op = "leave" /\ req[r].pc = "findGroup"
              /\ LeaveFindGroupStatus(r) \in {400, 409})
             => ~LeaveClearsPointer(r)]_vars

\* C16: a leave of group G by a user whose currentGroupId is G, when G no
\* longer exists, is answered NotFound (404) after the user's currentGroupId
\* was cleared, and changes no other User and no Group.
C16_StalePointerIsCleared ==
    [][\A r \in Slots :
          /\ (/\ req[r].op = "leave" /\ req[r].pc = "findGroup"
              /\ req[r].cur = req[r].gid /\ ~GroupExists(req[r].gid)
              /\ req'[r] # req[r])
             => /\ req'[r].pc = "saveUser" /\ req'[r].status = 404
                /\ store' = store
          /\ (/\ req[r].op = "leave" /\ req[r].pc = "saveUser"
              /\ req[r].cur = req[r].gid /\ req[r].status = 404
              /\ req'[r] # req[r])
             => /\ ~InFlight(r)'
                /\ LeaveSaveUserStatus(r) = 404
                /\ currentGroupId' = [currentGroupId EXCEPT ![req[r].user] = Null]
                /\ userDocs' = userDocs /\ groups' = groups]_vars

\* A user whose currentGroupId is a group the reaper deleted has asked to
\* leave it, and the handler has found no such group.
C16_Witness ==
    \E r \in Slots :
        /\ req[r].op = "leave" /\ req[r].pc = "saveUser" /\ req[r].status = 404
        /\ req[r].cur = req[r].gid
        /\ req[r].gid \in ReapedIds
        /\ currentGroupId[req[r].user] = req[r].gid

\* The step is one of the handler of slot r.
StepOf(r) == req'[r] # req[r]

\* C17: a join by a user who has a currentGroupId is answered Conflict (409);
\* otherwise a join of a group that does not exist is answered NotFound (404)
\* and a join of a group that lists the user Conflict (409), and these change
\* nothing; any other join adds that user, once, to the members of the group,
\* then sets the user's currentGroupId to the group and is answered 200, and
\* changes no other User or Group.
C17_JoinOutcomes ==
    [][/\ \A u \in Users :
             JoinStatus(u) = IF currentGroupId[u] # Null THEN 409 ELSE 0
       /\ \A r \in Slots : (req[r].op = "join" /\ StepOf(r)) =>
             LET u == req[r].user
                 g == req[r].gid
             IN  /\ req[r].pc = "findGroup" =>
                        /\ currentGroupId[u] = Null
                        /\ store' = store
                        /\ IF ~GroupExists(g)
                           THEN JoinFindGroupStatus(r) = 404 /\ ~InFlight(r)'
                           ELSE IF IsMember(groups[g].members, u)
                           THEN JoinFindGroupStatus(r) = 409 /\ ~InFlight(r)'
                           ELSE JoinFindGroupStatus(r) = 0 /\ req'[r].pc = "saveGroup"
                 /\ req[r].pc = "saveGroup" =>
                        /\ JoinSaveGroupStatus(r) = 0
                        /\ req'[r].pc = "saveUser"
                        /\ groups' = [groups EXCEPT ![g].members = Append(@, u)]
                        /\ ~IsMember(groups[g].members, u)
                        /\ userDocs' = userDocs /\ currentGroupId' = currentGroupId
                 /\ req[r].pc = "saveUser" =>
                        /\ ~InFlight(r)'
                        /\ currentGroupId' = [currentGroupId EXCEPT ![u] = g]
                        /\ currentGroupId[u] = Null
                        /\ userDocs' = userDocs /\ groups' = groups]_vars

\* A user has joined a group that had members, while another, who is listed
\* by a group, has no currentGroupId.
C17_Witness ==
    /\ \E r \in Slots :
          /\ req[r].op = "join" /\ req[r].pc = "saveUser"
          /\ Len(groups[req[r].gid].members) >= 2
    /\ \E u \in Users : currentGroupId[u] = Null /\ GroupsOf(u) # {}

\* C18: a leave by a user who has no currentGroupId, or of a group that does
\* not list the user, is answered Conflict (409); a leave of group G by a
\* member of G who is not its creator and whose currentGroupId is G removes
\* that user, and nobody else, from the members of G, then clears the user's
\* currentGroupId and is answered 200.
C18_LeaveOutcomes ==
    [][/\ \A u \in Users :
             (u \notin userDocs \/ currentGroupId[u] = Null) => LeaveStatus(u) = 409
       /\ \A r \in Slots : (req[r].op = "leave" /\ StepOf(r) /\ GroupExists(req[r].gid)) =>
             LET u == req[r].user
                 g == req[r].gid
             IN  /\ (req[r].pc = "findGroup" /\ ~IsMember(groups[g].members, u)) =>
                        LeaveFindGroupStatus(r) = 409
                 /\ (/\ req[r].pc = "findGroup" /\ IsMember(groups[g].members, u)
                     /\ groups[g].creator # u /\ currentGroupId[u] = g) =>
                        /\ LeaveFindGroupStatus(r) = 0
                        /\ req'[r].pc = "saveGroup"
                        /\ store' = store
                 /\ req[r].pc = "saveGroup" =>
                        /\ LeaveSaveGroupStatus(r) = 0
                        /\ req'[r].pc = "saveUser"
                        /\ Range(groups'[g].members) = Range(groups[g].members) \ {u}
                        /\ Len(groups'[g].members) = Len(groups[g].members) - 1
                        /\ \A k \in DOMAIN groups \ {g} : groups'[k] = groups[k]
                        /\ DOMAIN groups' = DOMAIN groups
                        /\ userDocs' = userDocs /\ currentGroupId' = currentGroupId
                 /\ (req[r].pc = "saveUser" /\ req[r].status = 0) =>
                        /\ ~InFlight(r)'
                        /\ LeaveSaveUserStatus(r) = 200
                        /\ currentGroupId[u] = g
                        /\ currentGroupId' = [currentGroupId EXCEPT ![u] = Null]
                        /\ userDocs' = userDocs /\ groups' = groups]_vars

\* A member who is not the creator has left a group of three.
C18_Witness ==
    \E r \in Slots :
        /\ req[r].op = "leave" /\ req[r].pc = "saveUser" /\ req[r].status = 0
        /\ GroupExists(req[r].gid)
        /\ ~IsMember(groups[req[r].gid].members, req[r].user)
        /\ Len(groups[req[r].gid].members) = 2

\* C19: a create by a user who has a currentGroupId is answered Conflict (409)
\* and creates no Group; a create with a valid body by a user who has none
\* creates one Group, whose creator is that user and whose members are that
\* user alone, then sets the user's currentGroupId to it and is answered 201.
C19_CreateOutcomes ==
    [][/\ \A u \in Users, p \in Payloads :
             CreateStatus(u, p) = IF currentGroupId[u] # Null THEN 409
                                  ELSE IF Validate(p) = 0 THEN 0 ELSE 400
       /\ \A r \in Slots :
             (~InFlight(r) /\ served' = served + 1 /\ ~InFlight(r)') => groups' = groups
       /\ \A r \in Slots : (req[r].op = "create" /\ StepOf(r)) =>
             LET u == req[r].user
             IN  /\ req[r].pc = "createGroup" =>
                        /\ currentGroupId[u] = Null
                        /\ req'[r].pc = "saveUser"
                        /\ Cardinality(DOMAIN groups' \ DOMAIN groups) = 1
                        /\ \A g \in DOMAIN groups : g \in DOMAIN groups' /\ groups'[g] = groups[g]
                        /\ \A g \in DOMAIN groups' \ DOMAIN groups :
                              /\ groups'[g].creator = u
                              /\ groups'[g].members = <<u>>
                              /\ req'[r].gid = g
                        /\ userDocs' = userDocs /\ currentGroupId' = currentGroupId
                 /\ req[r].pc = "saveUser" =>
                        /\ ~InFlight(r)'
                        /\ CreateSaveUserStatus = 201
                        /\ currentGroupId' = [currentGroupId EXCEPT ![u] = req[r].gid]
                        /\ groups[req[r].gid].members = <<u>>
                        /\ userDocs' = userDocs /\ groups' = groups]_vars

\* A second group was created, by a user who had none, while the creator of
\* the first still has one.
C19_Witness ==
    \E r \in Slots :
        /\ req[r].op = "create" /\ req[r].pc = "saveUser"
        /\ req[r].gid = 2
        /\ groups[2].members = <<req[r].user>>
        /\ \E u \in Users : currentGroupId[u] = 1

\* The frames the handler drops, as the claim lists them.
DroppedKinds == {"notjson", "wrongtype", "nontext", "blank", "toolong"}

GroupsOfSocket(c) == {g \in DOMAIN groupSockets : c \in groupSockets[g]}

\* C22: the close of a relaying connection unregisters that connection and
\* changes nothing else: no User, no Group, no stored message, and no
\* registration of another connection.
C22_CloseOnlyUnregisters ==
    [][\A c \in Conns :
          (conn[c].pc = "ready" /\ conn[c].open /\ ~conn'[c].open) =>
             /\ GroupsOfSocket(c)' = {}
             /\ store' = store
             /\ \A d \in Conns \ {c} :
                   /\ GroupsOfSocket(d)' = GroupsOfSocket(d)
                   /\ conn'[d] = conn[d]]_vars

\* A connection has closed and the other, which relays, is still registered.
C22_Witness ==
    \E c, d \in Conns :
        /\ conn[c].pc = "closed" /\ conn[c].code = 1000
        /\ conn[d].pc = "ready" /\ conn[d].open /\ Registered(d)
        /\ messages # <<>>

\* C23: no membership update is lost to a stale read. A leave that saves the
\* group removes its user, and nobody else, from the members as stored at that
\* moment; a join that saves the group adds its user to the members as stored
\* at that moment; and once a join by C and a leave by another user B have
\* both saved the group, it lists C and not B, and still does when the join
\* ends with C's currentGroupId set to it. So a join by C and a leave by B
\* that both succeed leave the members they found, plus C, minus B.
C23_NoLostUpdate ==
    [][\A r \in Slots : StepOf(r) =>
          LET u == req[r].user
              g == req[r].gid
          IN  /\ (req[r].op = "leave" /\ req[r].pc = "saveGroup" /\ req'[r].pc = "saveUser") =>
                     groups' = [groups EXCEPT ![g].members =
                                   SelectSeq(@, LAMBDA m : m # u)]
              /\ (req[r].op = "join" /\ req[r].pc = "saveGroup" /\ req'[r].pc = "saveUser") =>
                     groups' = [groups EXCEPT ![g].members = Append(@, u)]
              /\ (req[r].op = "join" /\ req[r].pc = "saveUser") =>
                     /\ currentGroupId'[u] = g
                     /\ groups' = groups
              /\ \A q \in Slots :
                    (/\ req[r].op = "join" /\ req[r].pc = "saveUser"
                     /\ req[q].op = "leave" /\ req[q].pc = "saveUser" /\ req[q].status = 0
                     /\ req[q].gid = g /\ req[q].user # u)
                    => /\ IsMember(groups[g].members, u)
                       /\ ~IsMember(groups[g].members, req[q].user)
                       /\ IsMember(groups'[g].members, u)]_vars

\* A join by one user and a leave by another, of one group, have both saved
\* the group: it lists the one and not the other.
C23_Witness ==
    \E r, q \in Slots :
        /\ req[r].op = "leave" /\ req[r].pc = "saveUser" /\ req[r].status = 0
        /\ req[q].op = "join" /\ req[q].pc = "saveUser"
        /\ req[r].gid = req[q].gid /\ req[r].user # req[q].user
        /\ IsMember(groups[req[q].gid].members, req[q].user)
        /\ ~IsMember(groups[req[r].gid].members, req[r].user)

\* C24: no user occurs twice in the members of a Group.
C24_MembersAreUnique ==
    \A g \in DOMAIN groups :
        \A i, j \in 1..Len(groups[g].members) :
            groups[g].members[i] = groups[g].members[j] => i = j

\* C25: a leave that names a group id other than the user's currentGroupId,
\* the id of no group among them, changes no currentGroupId and no members:
\* the handler, once it has looked for the group, goes on to no write.
C25_LeaveOfOtherGroupChangesNothing ==
    \A r \in Slots :
        (/\ req[r].op = "leave" /\ req[r].pc = "findGroup"
         /\ req[r].cur # req[r].gid
         /\ currentGroupId[req[r].user] = req[r].cur)
        => /\ LeaveFindGroupStatus(r) # 0
           /\ ~LeaveClearsPointer(r)

\* C26: the history frame is the first frame a socket is sent.
C26_HistoryIsFirstFrame ==
    \A c \in Conns : frames[c] # <<>> => frames[c][1].type = "history"

\* The messages socket c got in a history frame.
InHistory(c) == UNION {Range(frames[c][i].msgs) : i \in HistoryFrames(c)}

\* C27: no message is missed at setup. For a connection that stays open,
\* every stored message of its group was sent to it as a message frame or was
\* read by its history query, and is then in its history frame.
C27_NoMessageMissed ==
    \A c \in Conns : \A m \in Range(messages) :
        (conn[c].open /\ m.groupId = conn[c].gid) =>
            /\ conn[c].pc = "send" => Sent(c, m.id) >= 1 \/ m.id \in Range(conn[c].hist)
            /\ conn[c].pc = "ready" => Sent(c, m.id) >= 1 \/ m.id \in InHistory(c)

\* A socket that relays was sent a message frame while its history query was
\* awaited, and then the history, which holds an earlier message.
C27_Witness ==
    \E c \in Conns :
        /\ conn[c].pc = "ready" /\ conn[c].open
        /\ Len(frames[c]) = 2
        /\ frames[c][1].type = "message" /\ frames[c][2].type = "history"
        /\ frames[c][2].msgs # <<>>
        /\ frames[c][1].msgs[1] \notin Range(frames[c][2].msgs)

\* C28: no message is delivered twice to a socket: a message of its history
\* frame is not sent to it as a message frame too.
C28_NoMessageTwice ==
    \A c \in Conns : \A id \in InHistory(c) : Sent(c, id) = 0

\* C29: only current members take part in a group's chat. When a message is
\* stored under group G, its sender has currentGroupId G, and so has the user
\* of every connection the message frame is delivered to.
C29_OnlyCurrentMembersChat ==
    [][\A m \in pending :
          (messages' = Append(messages, m)) =>
              /\ currentGroupId[m.sender] = m.groupId
              /\ \A c \in Conns :
                    (frames'[c] # frames[c]) => currentGroupId[conn[c].user] = m.groupId]_vars

\* C30: no stored message carries the id of a group the reaper deleted.
C30_NoMessageOfReapedGroup ==
    \A i \in 1..Len(messages) : messages[i].groupId \notin ReapedIds

==========================================================================
